---- MODULE Spec2Model ----
(***************************************************************************)
(* A model of the lostnfound ray tracer: the scene containers of           *)
(* raytracer/main.cpp (linear scan and BVH descent), the recursive Tracer  *)
(* and the per-pixel sampling loop of lnf/trace.h, and the sphere marching *)
(* of lnf/trace.h.  Each component has its own specification over the      *)
(* shared variable tuple.                                                  *)
(***************************************************************************)
EXTENDS Integers, Sequences, FiniteSets

(***************************************************************************)
(* Bounds of the model.                                                    *)
(***************************************************************************)
\* most primitive instances added to a scene
MaxInst == 2
\* node slots of the BVH skeleton: node n has children 2n and 2n+1
MaxNodes == 3

\* largest max trace depth a Tracer is constructed with
MaxDepthLimit == 3
\* most scene answers prepared for one trace() call
MaxPath == 3

\* largest rays-per-pixel value renderImage is called with
MaxRays == 7
\* width and height of the output block
BlockWidth == 2
BlockHeight == 2
MaxBlockSize == 3
MaxUv == 6
MaxTicks == 6
MaxJobs == 2
MaxPaints == 2

VARIABLES
    \* ---- SimpleScene / SimpleSceneBvh (raytracer/main.cpp)
    m_objects,      \* SimpleScene::m_objects, the instances in insertion order
    m_root,         \* SimpleSceneBvh::m_root, the BVH (no node present: nullptr)
    buildCalls,     \* how many times build() has been called (2: twice or more)
    fatal,          \* the process has been ended by a fault
    unbuiltQueries, \* hit queries made while m_root was nullptr
    viewRay,        \* the ray of the current query, as seen by the scene
    linRes,         \* outcome of SimpleScene::hit on viewRay
    bvhRes,         \* outcome of SimpleSceneBvh::hit on viewRay
    \* ---- Tracer (lnf/trace.h)
    tracer,         \* the Tracer object: m_iTraceLimit, m_iTraceDepth, m_iTraceDepthMax
    lastTrace,      \* the trace() call just made: the scene's answers and what it returned
    \* ---- renderImage (lnf/trace.h), which owns a Tracer of its own
    render,         \* arguments, loop counters j, i, k, the pixel's ColorStat, position
    \* ---- marchedTrace (lnf/trace.h)
    march,          \* arguments, locals and out-parameters of one call
    \* ---- DiffuseCheckered (lnf/default_materials.h)
    checker,        \* a checkered material, the UV of the last hit, what scatter returned
    \* ---- MainWindow (raytracer/main.cpp)
    window          \* m_pSource and its Frame, m_bFrameDone, and what the ticks have done

sceneVars == <<m_objects, m_root, buildCalls, fatal, unbuiltQueries, viewRay, linRes, bvhRes>>

tracerVars == <<tracer, lastTrace>>

vars == <<sceneVars, tracerVars, render, march, checker, window>>

(***************************************************************************)
(* Intersect, the hit record.  It is truthy iff an intersection has been   *)
(* recorded; m_pNode is the instance hit (0: nullptr).                     *)
(***************************************************************************)
EmptyHit == [valid |-> FALSE, m_fPositionOnRay |-> 0, m_pNode |-> 0]

Nodes == 1..MaxNodes

\* m_left / m_right of node n; a child is nullptr when its slot is not present
Left(n) == 2 * n
Right(n) == 2 * n + 1

NullRoot == [present |-> {}, m_primitives |-> [n \in Nodes |-> <<>>]]

RECURSIVE SubtreeNodes(_, _)
SubtreeNodes(tree, n) ==
    IF n \notin tree.present THEN {}
    ELSE {n} \cup SubtreeNodes(tree, Left(n)) \cup SubtreeNodes(tree, Right(n))

SeqRange(s) == {s[i] : i \in 1..Len(s)}

\* the instances held by node n and its descendants
SubtreeInstances(tree, n) ==
    UNION {SeqRange(tree.m_primitives[k]) : k \in SubtreeNodes(tree, n)}

\* BvhNode::intersect(ray): the slab test of the node's box against the ray
BoxIntersect(ray, n) == ray.box[n]

\* BvhNode::empty()
NodeEmpty(tree, n) == Len(tree.m_primitives[n]) = 0

(***************************************************************************)
(* PrimitiveInstance::hit(nh): fills the record and returns true when the  *)
(* ray meets the instance.                                                 *)
(***************************************************************************)
PrimHits(ray, obj) == ray.t[obj] > 0

PrimHitRecord(ray, obj) ==
    [valid |-> TRUE, m_fPositionOnRay |-> ray.t[obj], m_pNode |-> obj]

\* mutant: keeps the farther hit
KeepsHitFarther(hit, nh) ==
    (~hit.valid) \/ (nh.m_fPositionOnRay > hit.m_fPositionOnRay)

\* the test of main.cpp:80 and main.cpp:151 on a primitive that reported a hit
KeepsHit(hit, nh) ==
    (~hit.valid) \/ (nh.m_fPositionOnRay < hit.m_fPositionOnRay)

\* one iteration of the loop over primitives: Intersect nh(_hit); test; assign
TestPrimitive(st, ray, obj) ==
    LET nh == PrimHitRecord(ray, obj)
    IN  [hit    |-> IF PrimHits(ray, obj) /\ KeepsHit(st.hit, nh) THEN nh ELSE st.hit,
         tested |-> Append(st.tested, obj)]

RECURSIVE TestPrimitives(_, _, _, _)
TestPrimitives(st, ray, prims, i) ==
    IF i > Len(prims) THEN st
    ELSE TestPrimitives(TestPrimitive(st, ray, prims[i]), ray, prims, i + 1)

\* SimpleScene::hit
SimpleSceneHit(hit, ray, objects) ==
    LET st == TestPrimitives([hit |-> hit, tested |-> <<>>], ray, objects, 1)
    IN  [done |-> TRUE, ret |-> st.hit.valid, hit |-> st.hit, tested |-> st.tested]

\* SimpleSceneBvh::checkBvhHit on a node that exists
RECURSIVE CheckBvhHit(_, _, _, _)
CheckBvhHit(st, ray, tree, n) ==
    LET own == IF ~NodeEmpty(tree, n)
               THEN TestPrimitives(st, ray, tree.m_primitives[n], 1)
               ELSE st
        l   == IF Left(n) \in tree.present /\ BoxIntersect(ray, Left(n))
               THEN CheckBvhHit(own, ray, tree, Left(n))
               ELSE own
        r   == IF Right(n) \in tree.present /\ BoxIntersect(ray, Right(n))
               THEN CheckBvhHit(l, ray, tree, Right(n))
               ELSE l
    IN  r

\* SimpleSceneBvh::hit, m_root not nullptr
SimpleSceneBvhHit(hit, ray, tree) ==
    LET st == CheckBvhHit([hit |-> hit, tested |-> <<>>], ray, tree, 1)
    IN  [done |-> TRUE, ret |-> st.hit.valid, hit |-> st.hit, tested |-> st.tested]

NoResult == [done |-> FALSE, ret |-> FALSE, hit |-> EmptyHit, tested |-> <<>>]

(***************************************************************************)
(* buildBvhRoot<2>(rawObjects, 16): any tree over the instances; every     *)
(* instance is held by exactly one node, a present node's parent is        *)
(* present, and the root always exists.                                    *)
(***************************************************************************)
ParentClosed(P) == 1 \in P /\ \A n \in P : n = 1 \/ (n \div 2) \in P

Orderings(S) ==
    {s \in [1..Cardinality(S) -> S] : \A i, j \in 1..Cardinality(S) : s[i] = s[j] => i = j}

RECURSIVE FilterSeq(_, _, _, _)
FilterSeq(s, where, n, i) ==
    IF i > Len(s) THEN <<>>
    ELSE IF where[s[i]] = n THEN <<s[i]>> \o FilterSeq(s, where, n, i + 1)
    ELSE FilterSeq(s, where, n, i + 1)

BuildBvhRoot(objects) ==
    LET O == SeqRange(objects)
    IN  {[present |-> P, m_primitives |-> [n \in Nodes |-> FilterSeq(order, where, n, 1)]] :
            <<P, where, order>> \in
                {<<P, where, order>> \in (SUBSET Nodes) \X [O -> Nodes] \X Orderings(O) :
                    ParentClosed(P) /\ \A o \in O : where[o] \in P}}

(***************************************************************************)
(* The rays a query may carry: what each instance reports for it (0: a     *)
(* miss, else its position on the ray; only the order of the positions     *)
(* matters, so as many values as instances suffice), and which node boxes  *)
(* it intersects.  A box contains the primitives of its subtree, so a ray  *)
(* that meets one of them meets the box.                                   *)
(***************************************************************************)
Rays(objects, tree) ==
    {[t |-> t, box |-> [n \in Nodes |-> n \in free \/
                          \E o \in SubtreeInstances(tree, n) : o \in DOMAIN t /\ t[o] > 0]] :
        <<t, free>> \in [SeqRange(objects) -> 0..Len(objects)] \X (SUBSET tree.present)}

NoRay == [t |-> <<0>>, box |-> [n \in Nodes |-> FALSE]]

SceneInit ==
    /\ m_objects = <<>>
    /\ m_root = NullRoot
    /\ buildCalls = 0
    /\ fatal = FALSE
    /\ unbuiltQueries = 0
    /\ viewRay = NoRay
    /\ linRes = NoResult
    /\ bvhRes = NoResult

\* SimpleScene::addPrimitiveInstance (not while a query is running)
AddPrimitiveInstance ==
    /\ ~fatal
    /\ viewRay = NoRay
    /\ Len(m_objects) < MaxInst
    /\ m_objects' = Append(m_objects, Len(m_objects) + 1)
    /\ UNCHANGED <<m_root, buildCalls, fatal, unbuiltQueries, viewRay, linRes, bvhRes>>
    /\ UNCHANGED <<tracerVars, render, march, checker, window>>

\* SimpleSceneBvh::build (not while a query is running)
Build ==
    /\ ~fatal
    /\ viewRay = NoRay
    /\ m_root' \in BuildBvhRoot(m_objects)
    /\ buildCalls' = IF buildCalls < 2 THEN buildCalls + 1 ELSE buildCalls
    /\ UNCHANGED <<m_objects, fatal, unbuiltQueries, viewRay, linRes, bvhRes>>
    /\ UNCHANGED <<tracerVars, render, march, checker, window>>

\* a caller sets up a fresh Intersect for a ray
CastRay ==
    /\ ~fatal
    /\ viewRay = NoRay
    /\ viewRay' \in Rays(m_objects, m_root)
    /\ UNCHANGED <<m_objects, m_root, buildCalls, fatal, unbuiltQueries, linRes, bvhRes>>
    /\ UNCHANGED <<tracerVars, render, march, checker, window>>

\* the caller is done with the Intersect
DropRay ==
    /\ ~fatal
    /\ linRes.done \/ bvhRes.done
    /\ viewRay' = NoRay
    /\ linRes' = NoResult
    /\ bvhRes' = NoResult
    /\ UNCHANGED <<m_objects, m_root, buildCalls, fatal, unbuiltQueries>>
    /\ UNCHANGED <<tracerVars, render, march, checker, window>>

\* SimpleScene::hit on the current ray
LinearHit ==
    /\ ~fatal
    /\ viewRay # NoRay
    /\ ~linRes.done
    /\ linRes' = SimpleSceneHit(EmptyHit, viewRay, m_objects)
    /\ UNCHANGED <<m_objects, m_root, buildCalls, fatal, unbuiltQueries, viewRay, bvhRes>>
    /\ UNCHANGED <<tracerVars, render, march, checker, window>>

\* SimpleSceneBvh::hit on the current ray, after build()
BvhHit ==
    /\ ~fatal
    /\ viewRay # NoRay
    /\ ~bvhRes.done
    /\ 1 \in m_root.present
    /\ bvhRes' = SimpleSceneBvhHit(EmptyHit, viewRay, m_root)
    /\ UNCHANGED <<m_objects, m_root, buildCalls, fatal, unbuiltQueries, viewRay, linRes>>
    /\ UNCHANGED <<tracerVars, render, march, checker, window>>

(***************************************************************************)
(* SimpleSceneBvh::hit before build(): checkBvhHit dereferences the null   *)
(* m_root.  The behaviour is undefined: the process faults, or the query   *)
(* returns with any record.                                                *)
(***************************************************************************)
BvhHitUnbuilt ==
    /\ ~fatal
    /\ viewRay # NoRay
    /\ ~bvhRes.done
    /\ 1 \notin m_root.present
    /\ unbuiltQueries' = 1
    /\ \/ /\ fatal' = TRUE
          /\ UNCHANGED bvhRes
       \/ /\ UNCHANGED fatal
          /\ \E h \in {EmptyHit} \cup {PrimHitRecord(viewRay, o) : o \in SeqRange(m_objects)} :
                bvhRes' = [done |-> TRUE, ret |-> h.valid, hit |-> h, tested |-> <<>>]
    /\ UNCHANGED <<m_objects, m_root, buildCalls, viewRay, linRes>>
    /\ UNCHANGED <<tracerVars, render, march, checker, window>>

(***************************************************************************)
(* Colours: one integer per channel.  Color() is black.                    *)
(***************************************************************************)
Black == <<0, 0, 0>>

ColorAdd(a, b) == <<a[1] + b[1], a[2] + b[2], a[3] + b[3]>>
ColorMul(a, b) == <<a[1] * b[1], a[2] * b[2], a[3] * b[3]>>
ColorScale(a, f) == <<a[1] * f, a[2] * f, a[3] * f>>

\* Color::isBlack
IsBlack(c) == c = Black

Abs(x) == IF x < 0 THEN -x ELSE x
Max(a, b) == IF a > b THEN a ELSE b
Min(a, b) == IF a < b THEN a ELSE b

(***************************************************************************)
(* Materials (default_materials.h).  A ScatteredRay is built from the      *)
(* outgoing ray, the attenuation m_color and the emission m_emitted; the   *)
(* outgoing ray does not take part in the colour and is left out.          *)
(***************************************************************************)
DiffuseRed == [class |-> "Diffuse", m_color |-> <<2, 1, 0>>]
DiffuseAbsorbing == [class |-> "Diffuse", m_color |-> Black]
LightWhite == [class |-> "Light", m_color |-> <<3, 3, 3>>]

Materials == {DiffuseRed, DiffuseAbsorbing, LightWhite}

\* Diffuse::scatter
DiffuseScatter(mat) == [m_color |-> mat.m_color, m_emitted |-> Black]

\* mutant: the attenuation and the emission change places
LightScatterSwapped(mat, dot) ==
    [m_color |-> ColorScale(mat.m_color, Abs(dot)), m_emitted |-> Black]

\* Light::scatter; dot is m_normal * m_priRay.m_direction
LightScatter(mat, dot) ==
    [m_color |-> Black, m_emitted |-> ColorScale(mat.m_color, Abs(dot))]

\* Material::scatter, by class
Scatter(mat, dot) ==
    IF mat.class = "Light" THEN LightScatter(mat, dot) ELSE DiffuseScatter(mat)

(***************************************************************************)
(* What the scene answers to one hit query of the tracer: a miss, a hit    *)
(* whose m_pNode is nullptr, or a hit of an instance with a material; dot  *)
(* is the cosine between the normal and the incoming direction.  bg is     *)
(* Scene::missColor of the ray queried.                                    *)
(***************************************************************************)
Backgrounds == {<<1, 1, 1>>, <<0, 1, 2>>}

Answers ==
    [kind : {"miss"}, bg : Backgrounds, mat : {DiffuseAbsorbing}, dot : {0}]
    \cup [kind : {"null"}, bg : {<<1, 1, 1>>}, mat : {DiffuseAbsorbing}, dot : {0}]
    \cup [kind : {"hit"}, bg : {<<1, 1, 1>>}, mat : {DiffuseRed, DiffuseAbsorbing}, dot : {1}]
    \cup [kind : {"hit"}, bg : {<<1, 1, 1>>}, mat : {LightWhite}, dot : {-1, 0, 1}]

\* a query past the prepared answers misses
DefaultAnswer == [kind |-> "miss", bg |-> <<1, 1, 1>>, mat |-> DiffuseAbsorbing, dot |-> 0]

AnswerAt(path, i) == IF i <= Len(path) THEN path[i] ELSE DefaultAnswer

Paths == UNION {[1..n -> Answers] : n \in 0..MaxPath}

\* mutant: the miss branch returns black
MissColorBlack(ans) == Black

\* Scene::missColor(_ray)
MissColor(ans) == ans.bg

\* mutant: one recursion more
RecursesOneMore(depth, limit, sc) == depth <= limit /\ ~IsBlack(sc.m_color)

\* the test of trace.h:61
Recurses(depth, limit, sc) == depth < limit /\ ~IsBlack(sc.m_color)

\* trace.h:71
Blend(sc, tracedColor) == ColorAdd(sc.m_emitted, ColorMul(sc.m_color, tracedColor))

(***************************************************************************)
(* Tracer::traceRay.  path[i] is the scene's answer to the i-th query of   *)
(* this trace() call.  The result carries the colour returned, the members *)
(* m_iTraceDepth and m_iTraceDepthMax afterwards, and one entry per        *)
(* traceRay call made, outermost first: its depth, whether it called       *)
(* scatter, and the colour it returned.                                    *)
(***************************************************************************)
RECURSIVE TraceRay(_, _, _, _, _)
TraceRay(path, i, depth, depthMax, limit) ==
    LET d   == depth + 1
        dm  == Max(d, depthMax)
        ans == AnswerAt(path, i)
        sc  == Scatter(ans.mat, ans.dot)
    IN  IF ans.kind = "hit"
        THEN IF Recurses(d, limit, sc)
             THEN LET sub == TraceRay(path, i + 1, d, dm, limit)
                      c   == Blend(sc, sub.color)
                  IN  [color |-> c, m_iTraceDepth |-> sub.m_iTraceDepth,
                       m_iTraceDepthMax |-> sub.m_iTraceDepthMax,
                       calls |-> <<[depth |-> d, scattered |-> TRUE, color |-> c]>> \o sub.calls]
             ELSE [color |-> sc.m_emitted, m_iTraceDepth |-> d, m_iTraceDepthMax |-> dm,
                   calls |-> <<[depth |-> d, scattered |-> TRUE, color |-> sc.m_emitted]>>]
        ELSE [color |-> MissColor(ans), m_iTraceDepth |-> d, m_iTraceDepthMax |-> dm,
              calls |-> <<[depth |-> d, scattered |-> FALSE, color |-> MissColor(ans)]>>]

\* Tracer::trace
Trace(path, t) == TraceRay(path, 1, 0, t.m_iTraceDepthMax, t.m_iTraceLimit)

\* Tracer::Tracer
NewTracer(maxTraceDepth) ==
    [m_iTraceLimit |-> maxTraceDepth, m_iTraceDepth |-> 0, m_iTraceDepthMax |-> 0]

NoTrace == [active |-> FALSE, path |-> <<>>, color |-> Black, calls |-> <<>>]

TracerInit ==
    /\ tracer \in {NewTracer(d) : d \in 0..MaxDepthLimit}
    /\ lastTrace = NoTrace

\* a caller traces one ray: Tracer::trace
TraceCall ==
    /\ ~lastTrace.active
    /\ \E path \in Paths :
          LET r == Trace(path, tracer)
          IN  /\ tracer' = [tracer EXCEPT !.m_iTraceDepth = r.m_iTraceDepth,
                                          !.m_iTraceDepthMax = r.m_iTraceDepthMax]
              /\ lastTrace' = [active |-> TRUE, path |-> path, color |-> r.color,
                               calls |-> r.calls]
    /\ UNCHANGED <<sceneVars, render, march, checker, window>>

\* the caller has used the colour
TraceReturn ==
    /\ lastTrace.active
    /\ lastTrace' = NoTrace
    /\ UNCHANGED <<tracer, sceneVars, render, march, checker, window>>

(***************************************************************************)
(* Properties of the scene containers.                                     *)
(***************************************************************************)
Objects == SeqRange(m_objects)

\* build() has run and the index holds exactly the instances of the scene
IndexCurrent ==
    /\ 1 \in m_root.present
    /\ SubtreeInstances(m_root, 1) = Objects

\* C1: for a built scene and any ray, SimpleSceneBvh::hit and SimpleScene::hit
\* report the same result: both miss, or both hit the same instance at the
\* same position on the ray, also when two instances hit at equal t.
C1_BvhSameAsLinear ==
    (IndexCurrent /\ linRes.done /\ bvhRes.done) =>
        (linRes.ret = bvhRes.ret /\ linRes.hit = bvhRes.hit)

\* C2: SimpleScene::hit on an empty record tests every instance, returns true
\* iff some instance hits, leaves the record of a hit with the minimal
\* position on the ray, and leaves the record empty when nothing hits.
C2_LinearScanMinimal ==
    linRes.done =>
        /\ linRes.tested = m_objects
        /\ linRes.ret = (\E o \in Objects : viewRay.t[o] > 0)
        /\ linRes.ret =>
              /\ linRes.hit.valid
              /\ linRes.hit.m_pNode \in Objects
              /\ viewRay.t[linRes.hit.m_pNode] = linRes.hit.m_fPositionOnRay
              /\ \A o \in Objects :
                    viewRay.t[o] > 0 => linRes.hit.m_fPositionOnRay <= viewRay.t[o]
        /\ ~linRes.ret => linRes.hit = EmptyHit

\* a scan in which a later instance replaced an earlier, farther hit
C2_Witness ==
    /\ linRes.done
    /\ Len(m_objects) = 2
    /\ viewRay.t[1] > viewRay.t[2]
    /\ viewRay.t[2] > 0
    /\ linRes.hit.m_pNode = 2

\* C8: the build protocol is enforced: a second build() and a hit query
\* before build() each end in a fatal error instead of proceeding.
C8_BuildProtocolEnforced ==
    /\ buildCalls >= 2 => fatal
    /\ unbuiltQueries > 0 => fatal

\* the instances a BVH query tested
BvhTested == SeqRange(bvhRes.tested)

\* C12: in a BVH query every node whose box the ray does not intersect, the
\* root included, has none of its primitives tested and none of its
\* descendants visited (a visit to a node shows as the tests of its
\* primitives).
C12_MissedBoxPrunesNode ==
    (bvhRes.done /\ 1 \in m_root.present) =>
        \A n \in m_root.present :
            ~BoxIntersect(viewRay, n) => SubtreeInstances(m_root, n) \cap BvhTested = {}

(***************************************************************************)
(* renderImage.  What the sampling loop reads from a trace() call is the   *)
(* state of the Tracer afterwards; TraceTable lists, per trace limit and   *)
(* per m_iTraceDepthMax before the call, the results trace() can have.     *)
(***************************************************************************)
\* trace.h:115, the k the early exit waits for
MIN_K == 4
\* trace.h:116, the maturity bound 0.000001; maturities are counted in
\* units of 0.000000001
MATURITY_BOUND == 1000

\* the colour tolerance MainWindow configures its Frame with, 0.000000001:
\* main.cpp:193 and main.cpp:231
m_fColorTollerance == 1

\* ColorStat::maturity() of the samples pushed so far: a flat pixel, one
\* between the two thresholds above, a noisy one
Maturities == {0, 500, 5000}

TraceTable ==
    [l \in 0..MaxDepthLimit, dm \in 0..(MaxDepthLimit + 1) |->
        {[m_iTraceDepth |-> r.m_iTraceDepth, m_iTraceDepthMax |-> r.m_iTraceDepthMax] :
            r \in {TraceRay(path, 1, 0, dm, l) : path \in Paths}}]

\* mutant: the early exit may be taken from the third sample on
MayStopEarlySooner(k, depthMax) == (k > 1) /\ (k > depthMax)

\* the test of trace.h:115
MayStopEarly(k, depthMax) == (k > MIN_K) /\ (k > depthMax)

\* the test of trace.h:116
Mature(maturity) == maturity < MATURITY_BOUND

\* the for loop of trace.h:109 is entered, or skipped, with k = 0
PixelEntry(rp) == IF 0 < rp THEN "sample" ELSE "write"

NewStats == [n |-> 0]

(***************************************************************************)
(* The output block: height rows of 3 * width bytes.  Of every byte the    *)
(* model keeps the position of its write in the order of all writes (0:    *)
(* not written); a write to a byte already written, or to a place outside  *)
(* the rows, is recorded.  Colour channels are counted in thousandths.     *)
(***************************************************************************)
ImageRows == 0..(BlockHeight - 1)
RowBytes == 0..(3 * BlockWidth - 1)

NewOutput ==
    [image |-> [r \in ImageRows |-> [b \in RowBytes |-> 0]], count |-> 0,
     rewritten |-> FALSE, stray |-> FALSE]

\* *(pPixel++) = value, pPixel being offset bytes into row(r)
StoreByte(out, r, offset) ==
    IF r \notin ImageRows \/ offset \notin RowBytes
    THEN [out EXCEPT !.stray = TRUE, !.count = @ + 1]
    ELSE IF out.image[r][offset] # 0
    THEN [out EXCEPT !.rewritten = TRUE, !.count = @ + 1]
    ELSE [out EXCEPT !.image[r][offset] = out.count + 1, !.count = @ + 1]

\* Color::clamp, one channel: the displayable range is 0..1
ClampChannel(c) == IF c < 0 THEN 0 ELSE IF c > 1000 THEN 1000 ELSE c

\* mutant: the channel is truncated instead of rounded
QuantizeTruncating(c) == (255 * c) \div 1000

\* (int)(255 * c + 0.5) of trace.h:125-127, c in thousandths and not negative
Quantize(c) == (255 * c + 500) \div 1000

\* ColorStat::mean() of the samples of a pixel: a dark, a mid, a bright
\* colour, and one with a channel below 0 and one above 1
MeanColors == {<<0, 0, 0>>, <<500, 2, 998>>, <<1000, 1000, 1000>>, <<-300, 10000, 250>>}

NoBytes == <<0, 0, 0>>

RenderInit ==
    /\ \E rp \in 0..MaxRays :
          render = [pc |-> PixelEntry(rp), iRaysPerPixel |-> rp, j |-> 0, i |-> 0, k |-> 0,
                    stats |-> NewStats, pixelDepth |-> 0, brk |-> FALSE, maturity |-> 0,
                    pPixel |-> 0, out |-> NewOutput, mean |-> Black, bytes |-> NoBytes]

\* one pass of the loop body of trace.h:109-121: trace, push, early exit, k++
RenderSample ==
    /\ render.pc = "sample"
    /\ \E r \in TraceTable[tracer.m_iTraceLimit, tracer.m_iTraceDepthMax], m \in Maturities :
          LET brk == MayStopEarly(render.k, r.m_iTraceDepthMax) /\ Mature(m)
              k1  == IF brk THEN render.k ELSE render.k + 1
          IN  /\ tracer' = [tracer EXCEPT !.m_iTraceDepth = r.m_iTraceDepth,
                                          !.m_iTraceDepthMax = r.m_iTraceDepthMax]
              /\ render' = [render EXCEPT
                              !.stats = [n |-> render.stats.n + 1],
                              !.pixelDepth = Max(render.pixelDepth, r.m_iTraceDepth),
                              !.k = k1,
                              !.brk = brk,
                              !.maturity = IF brk THEN m ELSE 0,
                              !.pc = IF brk \/ ~(k1 < render.iRaysPerPixel)
                                     THEN "write" ELSE "sample"]
    /\ UNCHANGED <<sceneVars, lastTrace, march, checker, window>>

\* trace.h:124-127 and the step to the next pixel of the block; pPixel is
\* the offset into row(j), set to the start of the row at trace.h:104
WritePixel ==
    /\ render.pc = "write"
    /\ \E mean \in MeanColors :
       LET lastInRow == render.i + 1 = BlockWidth
           lastRow   == render.j + 1 = BlockHeight
           color     == [c \in 1..3 |-> ClampChannel(mean[c])]
           out1      == StoreByte(render.out, render.j, render.pPixel)
           out2      == StoreByte(out1, render.j, render.pPixel + 1)
           out3      == StoreByte(out2, render.j, render.pPixel + 2)
       IN  render' = [render EXCEPT
                        !.mean = mean,
                        !.bytes = <<Quantize(color[1]), Quantize(color[2]), Quantize(color[3])>>,
                        !.out = out3,
                        !.pPixel = IF lastInRow THEN 0 ELSE render.pPixel + 3,
                        !.i = IF lastInRow THEN 0 ELSE render.i + 1,
                        !.j = IF lastInRow THEN render.j + 1 ELSE render.j,
                        !.k = 0,
                        !.stats = NewStats,
                        !.pixelDepth = 0,
                        !.brk = FALSE,
                        !.maturity = 0,
                        !.pc = IF lastInRow /\ lastRow THEN "done"
                               ELSE PixelEntry(render.iRaysPerPixel)]
    /\ UNCHANGED <<sceneVars, tracerVars, march, checker, window>>

(***************************************************************************)
(* marchedTrace and marchedNormal.  Lengths are fixed-point integers in    *)
(* millionths; vectors are triples of them.  Ray directions are unit       *)
(* vectors along an axis.                                                  *)
(***************************************************************************)
FixedOne == 1000 * 1000

\* trace.h:151, MAX_DIST
MAX_DIST == 1000
\* trace.h:152, e = 0.000001, in millionths
MARCH_E == 1
\* trace.h:153, n
MARCH_N == 1000
\* trace.h:136, e = 0.0001, in millionths
NORMAL_E == 100

VecAdd(a, b) == <<a[1] + b[1], a[2] + b[2], a[3] + b[3]>>
VecSub(a, b) == <<a[1] - b[1], a[2] - b[2], a[3] - b[3]>>
VecScale(a, f) == <<a[1] * f, a[2] * f, a[3] * f>>

\* integer division rounding toward zero
TruncDiv(a, b) == IF a < 0 THEN -((-a) \div b) ELSE a \div b

\* bisection; the midpoint is bound once per pass as the one element of a set
RECURSIVE SqrtBetween(_, _, _)
SqrtBetween(x, lo, hi) ==
    IF lo >= hi THEN lo
    ELSE CHOOSE r \in {IF mid * mid <= x THEN SqrtBetween(x, mid, hi)
                                         ELSE SqrtBetween(x, lo, mid - 1) :
                       mid \in {(lo + hi + 1) \div 2}} : TRUE

\* floor of the square root
ISqrt(x) == SqrtBetween(x, 0, Min(x, 46340))

\* Vec::size; a vector along one axis has the size of its one component
Norm(v) ==
    IF v[2] = 0 /\ v[3] = 0 THEN Abs(v[1])
    ELSE IF v[1] = 0 /\ v[3] = 0 THEN Abs(v[2])
    ELSE IF v[1] = 0 /\ v[2] = 0 THEN Abs(v[3])
    ELSE ISqrt(v[1] * v[1] + v[2] * v[2] + v[3] * v[3])

\* Vec::normalized; the zero vector has no direction (0/0)
Normalized(v) ==
    IF Norm(v) = 0 THEN [nan |-> TRUE, v |-> <<0, 0, 0>>]
    ELSE [nan |-> FALSE,
          v |-> <<TruncDiv(v[1] * FixedOne, Norm(v)), TruncDiv(v[2] * FixedOne, Norm(v)),
                  TruncDiv(v[3] * FixedOne, Norm(v))>>]

(***************************************************************************)
(* The signed distance functions marched: a sphere about the origin (gain  *)
(* 1: the exact distance; gain 2: a field that overestimates it), the      *)
(* half space x < c, a constant field, and a field that is a small         *)
(* positive constant for x < c and far below -MAX_DIST from x = c on.      *)
(***************************************************************************)
Sdf(f, pt) ==
    CASE f.shape = "sphere" -> f.gain * (Norm(pt) - f.r)
      [] f.shape = "plane" -> pt[1] - f.r
      [] f.shape = "cliff" -> IF pt[1] < f.r THEN f.gain ELSE -(1500 * FixedOne)
      [] OTHER -> f.r

\* marchedNormal
MarchedNormal(pt, f) ==
    Normalized(<<Sdf(f, VecAdd(pt, <<NORMAL_E, 0, 0>>)) - Sdf(f, VecSub(pt, <<NORMAL_E, 0, 0>>)),
                 Sdf(f, VecAdd(pt, <<0, NORMAL_E, 0>>)) - Sdf(f, VecSub(pt, <<0, NORMAL_E, 0>>)),
                 Sdf(f, VecAdd(pt, <<0, 0, NORMAL_E>>)) - Sdf(f, VecSub(pt, <<0, 0, NORMAL_E>>))>>)

RECURSIVE Pow2(_)
Pow2(k) == IF k = 0 THEN 1 ELSE 2 * Pow2(k - 1)

\* distance * stepScale, stepScale being sign / 2^halvings; a step scale
\* below 2^-30 takes the product under one millionth
ScaledStep(distance, stepScale) ==
    IF stepScale.halvings > 30 THEN 0
    ELSE stepScale.sign * TruncDiv(distance, Pow2(stepScale.halvings))

\* a * b < -e for e = 0.000001, a and b in millionths, without forming a * b
CrossesSurface(a, b) ==
    /\ (a < 0 /\ b > 0) \/ (a > 0 /\ b < 0)
    /\ Abs(a) > (MARCH_E * FixedOne) \div Abs(b)

\* mutant: the step is taken against the ray when the origin is inside
StartScaleUnsigned(distance) == [sign |-> 1, halvings |-> 0]

\* trace.h:154-162, the step scale the march starts with
StartScale(distance) == [sign |-> IF distance < 0 THEN -1 ELSE 1, halvings |-> 0]

\* mutant: a hit is accepted a thousand times farther from the surface
HitReachedLoose(absd) == absd <= 1000 * MARCH_E

\* the test of trace.h:171
HitReached(absd) == absd <= MARCH_E

\* mutant: running out of iterations counts as a hit
CapResultHit == TRUE

\* trace.h:188, the result when the loop runs out
CapResult == FALSE

\* the out-parameter _normal, before and after it is assigned
NoNormal == [set |-> FALSE, nan |-> FALSE, v |-> <<0, 0, 0>>]
SetNormal(nv) == [set |-> TRUE, nan |-> nv.nan, v |-> nv.v]

Spheres == [shape : {"sphere"}, gain : {1}, r : {50, 1000, 30000}]

\* the distances from the surface a ray starts at
StartGaps == {1, 2, 700, 250000, MAX_DIST * FixedOne, MAX_DIST * FixedOne + 1}

AxisDirections == {<<1, 0, 0>>, <<-1, 0, 0>>, <<0, 1, 0>>, <<0, 0, -1>>}

\* rays aimed at the centre of a sphere from outside it
CentredRays ==
    {[sdf |-> f, m_direction |-> dir, m_origin |-> VecScale(dir, -(f.r + gap)), centred |-> TRUE] :
        f \in Spheres, gap \in StartGaps, dir \in AxisDirections}

\* other marches: from inside a sphere, away from it, through overestimating
\* fields, along and away from a plane, in constant fields
OtherRays ==
    {[sdf |-> [shape |-> "sphere", gain |-> 1, r |-> 1000], m_direction |-> <<1, 0, 0>>,
      m_origin |-> <<x, 0, 0>>, centred |-> FALSE] : x \in {-400, 0, 999, 1500}}
    \cup {[sdf |-> [shape |-> "sphere", gain |-> 2, r |-> 30000], m_direction |-> <<1, 0, 0>>,
           m_origin |-> <<-30000 - gap, 0, 0>>, centred |-> FALSE] : gap \in {3, 400, 2000}}
    \cup {[sdf |-> [shape |-> "sphere", gain |-> 2, r |-> 30000], m_direction |-> <<1, 0, 0>>,
           m_origin |-> <<x, 0, 0>>, centred |-> FALSE] : x \in {-29997, 29000}}
    \cup {[sdf |-> [shape |-> "plane", gain |-> 1, r |-> 5000], m_direction |-> dir,
           m_origin |-> <<x, 0, 0>>, centred |-> FALSE] :
              x \in {4000, 6000}, dir \in {<<1, 0, 0>>, <<-1, 0, 0>>, <<0, 1, 0>>}}
    \cup {[sdf |-> [shape |-> "constant", gain |-> 1, r |-> c], m_direction |-> <<1, 0, 0>>,
           m_origin |-> <<0, 0, 0>>, centred |-> FALSE] :
              c \in {0, 7, -7, 1500 * FixedOne, -1500 * FixedOne}}
    \cup {[sdf |-> [shape |-> "cliff", gain |-> 2000, r |-> 1500], m_direction |-> <<1, 0, 0>>,
           m_origin |-> <<0, 0, 0>>, centred |-> FALSE]}

MarchArguments == CentredRays \cup OtherRays

MarchInit ==
    \E a \in MarchArguments :
        march = [pc |-> "entry", ray |-> a, i |-> 0, distance |-> 0,
                 stepScale |-> [sign |-> 1, halvings |-> 0], intersect |-> a.m_origin,
                 bInside |-> FALSE, normal |-> NoNormal, ret |-> FALSE, reached |-> FALSE]

\* trace.h:154-162
MarchBegin ==
    /\ march.pc = "entry"
    /\ LET d == Sdf(march.ray.sdf, march.ray.m_origin)
       IN  march' = [march EXCEPT !.pc = "loop", !.i = 0, !.intersect = march.ray.m_origin,
                                  !.distance = d, !.bInside = d < 0,
                                  !.stepScale = StartScale(d)]
    /\ UNCHANGED <<sceneVars, tracerVars, render, checker, window>>

\* the body of the loop, trace.h:165-185: the state of the march after a pass
LoopPass(m) ==
    LET absd == Abs(m.distance)
        seen == m.reached \/ absd <= MARCH_E
    IN  IF absd > MAX_DIST * FixedOne
        THEN [m EXCEPT !.pc = "returned", !.ret = FALSE, !.reached = seen,
                       !.bInside = m.distance < 0]
        ELSE IF HitReached(absd)
        THEN [m EXCEPT !.pc = "returned", !.ret = TRUE, !.reached = seen,
                       !.normal = SetNormal(MarchedNormal(m.intersect, m.ray.sdf))]
        ELSE LET pt == VecAdd(m.intersect,
                              VecScale(m.ray.m_direction,
                                       ScaledStep(m.distance, m.stepScale)))
                 newDistance == Sdf(m.ray.sdf, pt)
             IN  [m EXCEPT !.intersect = pt,
                           !.stepScale = IF CrossesSurface(m.distance, newDistance)
                                         THEN [@ EXCEPT !.halvings = @ + 1] ELSE @,
                           !.distance = newDistance,
                           !.reached = seen,
                           !.i = m.i + 1]

\* one pass of the loop, trace.h:164-186
MarchIterate ==
    /\ march.pc = "loop"
    /\ march.i < MARCH_N
    /\ march' = LoopPass(march)
    /\ UNCHANGED <<sceneVars, tracerVars, render, checker, window>>

\* the loop has run n times: trace.h:188
MarchLoopEnd ==
    /\ march.pc = "loop"
    /\ ~(march.i < MARCH_N)
    /\ march' = [march EXCEPT !.pc = "returned", !.ret = CapResult]
    /\ UNCHANGED <<sceneVars, tracerVars, render, checker, window>>

(***************************************************************************)
(* DiffuseCheckered.  u and v of the hit are counted in quarters; colours  *)
(* are one integer per channel as above.                                   *)
(***************************************************************************)
UvDenom == 4

\* the operator % of C++ on int: the remainder has the sign of the dividend
CRem(a, b) == a - b * TruncDiv(a, b)

\* (int)(uv * m_iBlockSize): the float product converted towards zero
ScaledInt(uv, blockSize) == TruncDiv(uv * blockSize, UvDenom)

\* DiffuseCheckered::color
CheckerColor(mat, uv) ==
    LET c == CRem(ScaledInt(uv.u, mat.m_iBlockSize) + ScaledInt(uv.v, mat.m_iBlockSize), 2)
    IN  ColorAdd(ColorScale(mat.m_colorA, c), ColorScale(mat.m_colorB, 1 - c))

\* Diffuse::scatter of a DiffuseCheckered: the attenuation is color(_hit)
CheckeredScatter(mat, uv) == [m_color |-> CheckerColor(mat, uv), m_emitted |-> Black]

CheckeredMaterials ==
    [m_colorA : {<<3, 3, 3>>, <<2, 1, 0>>}, m_colorB : {<<1, 1, 1>>}, m_iBlockSize : 1..MaxBlockSize]

HitUvs == [u : -MaxUv..MaxUv, v : -MaxUv..MaxUv]

NoScattered == [m_color |-> Black, m_emitted |-> Black]

\* a DiffuseCheckered has been constructed
CheckerInit ==
    \E mat \in CheckeredMaterials :
        checker = [pc |-> "constructed", mat |-> mat, uv |-> [u |-> 0, v |-> 0],
                   scattered |-> NoScattered]

\* scatter() is called for a hit with some UV
CheckerScatter ==
    /\ \E uv \in HitUvs :
          checker' = [checker EXCEPT !.pc = "scattered", !.uv = uv,
                                     !.scattered = CheckeredScatter(checker.mat, uv)]
    /\ UNCHANGED <<sceneVars, tracerVars, render, march, window>>

(***************************************************************************)
(* MainWindow.  The Frame renders its jobs on worker threads of its own;   *)
(* the window sees it through isFinished().  Next to the members the model *)
(* counts what the ticks did: frames created, progress polls, calls of     *)
(* writeJpegFile, and the ticks at which these happened.                   *)
(***************************************************************************)
\* Frame::isFinished(): every job of the frame is done
IsFinished(frame) == frame.jobsDone = MaxJobs

\* std::make_unique<Frame>(...), main.cpp:226-231
NewFrame == [jobsDone |-> 0]

NoFrame == [jobsDone |-> 0]

WriteOutcomes == {"ok", "failed"}

\* mutant: a failed write leaves the frame to be written again
FrameDoneAfterWriteOk(outcome) == outcome = "ok"

\* main.cpp:240-241: the result of writeJpegFile is not looked at
FrameDoneAfterWrite(outcome) == TRUE

\* MainWindow::MainWindow
WindowInit ==
    window = [m_pSource |-> "nullptr", frame |-> NoFrame, m_bFrameDone |-> FALSE,
              m_iFrameCount |-> 0, ticks |-> 0, created |-> 0, polls |-> 0, writes |-> 0,
              writeTick |-> 0, firstFinishedTick |-> 0, lastOutcome |-> "none"]

\* MainWindow::timerEvent, main.cpp:222-263
TimerEvent ==
    /\ window.ticks < MaxTicks
    /\ LET tick == window.ticks + 1
       IN  IF window.m_pSource = "nullptr"
           THEN window' = [window EXCEPT !.ticks = tick, !.m_pSource = "frame",
                                         !.frame = NewFrame, !.created = @ + 1]
           ELSE IF IsFinished(window.frame)
           THEN \E outcome \in WriteOutcomes :
                  LET seen == [window EXCEPT
                                 !.ticks = tick, !.polls = @ + 1,
                                 !.firstFinishedTick = IF @ = 0 THEN tick ELSE @]
                  IN  IF window.m_bFrameDone = FALSE
                      THEN window' = [seen EXCEPT !.writes = @ + 1, !.writeTick = tick,
                                                  !.lastOutcome = outcome,
                                                  !.m_bFrameDone = FrameDoneAfterWrite(outcome)]
                      ELSE window' = seen
           ELSE window' = [window EXCEPT !.ticks = tick, !.polls = @ + 1]
    /\ UNCHANGED <<sceneVars, tracerVars, render, march, checker>>

\* MainWindow::paintEvent, main.cpp:205-220
PaintEvent ==
    /\ window.m_iFrameCount < MaxPaints
    /\ window' = [window EXCEPT !.m_iFrameCount = @ + 1]
    /\ UNCHANGED <<sceneVars, tracerVars, render, march, checker>>

\* a worker of the Frame finishes a job
JobDone ==
    /\ window.m_pSource = "frame"
    /\ window.frame.jobsDone < MaxJobs
    /\ window' = [window EXCEPT !.frame.jobsDone = @ + 1]
    /\ UNCHANGED <<sceneVars, tracerVars, render, march, checker>>

(***************************************************************************)
(* Properties of the Tracer.                                               *)
(***************************************************************************)
\* the scene's answer to the query of the i-th traceRay call, and its scatter
CallAnswer(i) == AnswerAt(lastTrace.path, i)
CallScatter(i) == Scatter(CallAnswer(i).mat, CallAnswer(i).dot)
NumCalls == Len(lastTrace.calls)

\* C3: for every max trace depth, trace() on a ray the scene reports no hit
\* for returns the scene's miss colour of that ray, after exactly one scene
\* query and without calling scatter.
C3_MissReturnsBackground ==
    (lastTrace.active /\ CallAnswer(1).kind = "miss") =>
        /\ lastTrace.color = CallAnswer(1).bg
        /\ NumCalls = 1
        /\ ~lastTrace.calls[1].scattered

\* a primary miss with depth budget left and further answers prepared
C3_Witness ==
    /\ lastTrace.active
    /\ Len(lastTrace.path) >= 2
    /\ lastTrace.path[1].kind = "miss"
    /\ lastTrace.path[1].bg = <<0, 1, 2>>
    /\ lastTrace.path[2].kind = "hit"
    /\ tracer.m_iTraceLimit >= 2

\* C4: a traceRay call that hits a Light returns the emission (base colour
\* times |normal . direction|) only, and is the deepest call of the trace:
\* the depth does not grow past the depth of the Light hit.
C4_LightEndsTrace ==
    lastTrace.active =>
        \A i \in 1..NumCalls :
            (CallAnswer(i).kind = "hit" /\ CallAnswer(i).mat.class = "Light") =>
                /\ lastTrace.calls[i].color =
                      ColorScale(CallAnswer(i).mat.m_color, Abs(CallAnswer(i).dot))
                /\ i = NumCalls
                /\ tracer.m_iTraceDepth = lastTrace.calls[i].depth

\* a Light hit on the second ray, with depth budget and answers left
C4_Witness ==
    /\ lastTrace.active
    /\ NumCalls = 2
    /\ Len(lastTrace.path) >= 3
    /\ lastTrace.path[2].mat.class = "Light"
    /\ lastTrace.path[2].kind = "hit"
    /\ lastTrace.path[2].dot = -1
    /\ lastTrace.path[3].kind = "hit"
    /\ tracer.m_iTraceLimit >= 3

\* every answer of the path is a hit of a surface whose attenuation is not black
AlwaysHitsNonAbsorbing(path) ==
    \A i \in 1..Len(path) :
        path[i].kind = "hit" /\ ~IsBlack(Scatter(path[i].mat, path[i].dot).m_color)

\* C9, as claimed: the remaining depth starts at the max trace depth and
\* drops by one per recursion; a call recurses exactly when it hit, the
\* remaining depth is > 0 and the attenuation is not black; so max depth d
\* gives d + 1 scene queries on a path that always hits non-absorbing
\* surfaces.
C9_RecursesWhileDepthRemains ==
    lastTrace.active =>
        /\ \A i \in 1..NumCalls :
              (i < NumCalls) <=>
                  /\ CallAnswer(i).kind = "hit"
                  /\ tracer.m_iTraceLimit - (i - 1) > 0
                  /\ ~IsBlack(CallScatter(i).m_color)
        /\ (AlwaysHitsNonAbsorbing(lastTrace.path)
              /\ Len(lastTrace.path) > tracer.m_iTraceLimit)
                => NumCalls = tracer.m_iTraceLimit + 1

\* C9, amended: the depth is 1 for the primary ray and grows by one per
\* recursion; a call recurses exactly when it hit, its depth is below the max
\* trace depth and the attenuation is not black, and then returns emission +
\* attenuation * trace(outgoing), else the emission only (the miss colour on a
\* miss); so max depth d gives max(d, 1) scene queries on a path that always
\* hits non-absorbing surfaces.
C9_RecursesBelowLimit ==
    lastTrace.active =>
        /\ lastTrace.color = lastTrace.calls[1].color
        /\ \A i \in 1..NumCalls :
              /\ lastTrace.calls[i].depth = i
              /\ (i < NumCalls) <=>
                    /\ CallAnswer(i).kind = "hit"
                    /\ i < tracer.m_iTraceLimit
                    /\ ~IsBlack(CallScatter(i).m_color)
              /\ lastTrace.calls[i].color =
                    IF i < NumCalls
                    THEN ColorAdd(CallScatter(i).m_emitted,
                                  ColorMul(CallScatter(i).m_color, lastTrace.calls[i + 1].color))
                    ELSE IF CallAnswer(i).kind = "hit" THEN CallScatter(i).m_emitted
                    ELSE CallAnswer(i).bg
        /\ (AlwaysHitsNonAbsorbing(lastTrace.path)
              /\ Len(lastTrace.path) >= Max(tracer.m_iTraceLimit, 1))
                => NumCalls = Max(tracer.m_iTraceLimit, 1)

\* max depth 3 on three non-absorbing hits: three scene queries
C9_Witness ==
    /\ lastTrace.active
    /\ tracer.m_iTraceLimit = 3
    /\ Len(lastTrace.path) = 3
    /\ AlwaysHitsNonAbsorbing(lastTrace.path)
    /\ NumCalls = 3

(***************************************************************************)
(* Properties of renderImage.                                              *)
(***************************************************************************)
\* C5, as claimed: every pixel gets at least 5 samples and at most the
\* rays-per-pixel value, whatever that value is (stated here for the values
\* from 1 on; a value of 0 is a configuration error).
C5_SamplesWithinFloorAndMax ==
    (render.pc = "write" /\ render.iRaysPerPixel >= 1) =>
        /\ render.stats.n >= MIN_K + 1
        /\ render.stats.n <= render.iRaysPerPixel

\* C5, amended: every pixel gets at most the rays-per-pixel value and at
\* least the smaller of that value and 5.
C5_SamplesWithinMax ==
    render.pc = "write" =>
        /\ render.stats.n >= Min(MIN_K + 1, render.iRaysPerPixel)
        /\ render.stats.n <= render.iRaysPerPixel

\* a pixel that stopped before the maximum
C5_Witness ==
    /\ render.pc = "write"
    /\ render.stats.n < render.iRaysPerPixel

\* C10: the depth the sampler reads, Tracer::traceDepthMax, is the deepest
\* recursion reached by the rays of the current pixel.
C10_DepthMaxIsOfThisPixel ==
    render.stats.n > 0 => tracer.m_iTraceDepthMax = render.pixelDepth

\* C11: a pixel leaves the sample loop before the maximum only when (a) at
\* least 5 samples, and at least as many as the deepest recursion reached,
\* have been taken and (b) the maturity of its statistic is below the colour
\* tolerance the frame was configured with.
C11_EarlyStopOnlyBelowTolerance ==
    (render.pc = "write" /\ render.brk) =>
        /\ render.stats.n >= MIN_K + 1
        /\ render.stats.n >= render.pixelDepth
        /\ render.maturity < m_fColorTollerance

\* the pixels renderImage has written so far, in the order of its loops
PixelsWritten == render.j * BlockWidth + render.i

\* C15: renderImage writes every pixel (i, j) of the block exactly once, as
\* the three bytes at offset 3 * i of row(j), in row-major order, and writes
\* nothing outside the rows of the block; every channel written is the mean
\* clamped to 0..1 and rounded to an integer in 0..255.  This holds for any
\* rays-per-pixel value, 0 included.
C15_PixelsWrittenOnceInOrder ==
    /\ ~render.out.stray
    /\ ~render.out.rewritten
    /\ render.out.count = 3 * PixelsWritten
    /\ \A r \in ImageRows, b \in RowBytes :
          render.out.image[r][b] =
              IF 3 * (r * BlockWidth) + b < 3 * PixelsWritten
              THEN 3 * (r * BlockWidth) + b + 1 ELSE 0
    /\ PixelsWritten > 0 =>
          \A c \in 1..3 :
              LET m == render.mean[c]
                  clamped == IF m < 0 THEN 0 ELSE IF m > 1000 THEN 1000 ELSE m
              IN  /\ render.bytes[c] \in 0..255
                  /\ 1000 * render.bytes[c] <= 255 * clamped + 500
                  /\ 255 * clamped + 500 < 1000 * (render.bytes[c] + 1)

\* a block rendered with no ray per pixel, whose last pixel had a mean with
\* a channel below 0 and one above 1
C15_Witness ==
    /\ render.pc = "done"
    /\ render.iRaysPerPixel = 0
    /\ render.out.count = 3 * BlockWidth * BlockHeight
    /\ render.mean = <<-300, 10000, 250>>
    /\ render.bytes = <<0, 255, 64>>

\* the signed distance at the origin of the ray
OriginDistance == Sdf(march.ray.sdf, march.ray.m_origin)

\* what C14 says of one step of marchedTrace
C14_Step ==
    /\ (march.pc = "entry" /\ march'.pc = "loop") =>
          /\ march'.bInside = (OriginDistance < 0)
          /\ march'.stepScale = [sign |-> IF OriginDistance < 0 THEN -1 ELSE 1, halvings |-> 0]
    /\ (march.pc = "loop" /\ march'.pc = "loop") =>
          /\ march'.stepScale.sign = march.stepScale.sign
          /\ march'.stepScale.halvings =
                IF CrossesSurface(march.distance, march'.distance)
                THEN march.stepScale.halvings + 1 ELSE march.stepScale.halvings
          /\ march'.bInside = march.bInside
          /\ march.i = 0 =>
                march'.intersect = VecAdd(march.ray.m_origin,
                                          VecScale(march.ray.m_direction, Abs(OriginDistance)))
    /\ (march.pc = "loop" /\ march'.pc = "returned") =>
          /\ march'.stepScale = march.stepScale
          /\ march'.bInside =
                IF march.i < MARCH_N /\ Abs(march.distance) > MAX_DIST * FixedOne
                THEN march.distance < 0 ELSE OriginDistance < 0

\* C14: a march that starts inside the surface is marked so and starts with
\* the step scale negated, so that its first step goes forward along the ray
\* by |distance|; afterwards the step scale keeps its sign and is halved
\* exactly when consecutive distances have a product below -e; the inside
\* flag returned is that of the origin on a hit and on running out of
\* iterations, and that of the last distance on a maximum-distance miss.
C14_InsideStartAndStepScale == [][C14_Step]_vars

\* a march from inside that crossed the surface, halved its step and hit
C14_Witness ==
    /\ march.pc = "returned"
    /\ march.ret
    /\ OriginDistance < 0
    /\ march.bInside
    /\ march.stepScale = [sign |-> -1, halvings |-> 1]

(***************************************************************************)
(* Properties of MainWindow.                                               *)
(***************************************************************************)
\* C16: over any sequence of ticks the Frame is created once, on the first
\* tick, progress is polled on the later ticks only, and writeJpegFile is
\* called exactly once, on the first tick at which isFinished() is true,
\* never before and never again, whatever the write returned.
C16_FrameOnceWriteOnce ==
    /\ window.created = IF window.ticks >= 1 THEN 1 ELSE 0
    /\ window.polls = IF window.ticks >= 1 THEN window.ticks - 1 ELSE 0
    /\ (window.m_pSource = "frame") = (window.ticks >= 1)
    /\ window.writes = IF window.firstFinishedTick >= 1 THEN 1 ELSE 0
    /\ window.writeTick = window.firstFinishedTick
    /\ window.writes >= 1 => IsFinished(window.frame)
    /\ window.m_bFrameDone = (window.writes = 1)

\* the write failed and two more ticks have passed since
C16_Witness ==
    /\ window.writes = 1
    /\ window.lastOutcome = "failed"
    /\ window.ticks >= window.writeTick + 2

(***************************************************************************)
(* Properties of DiffuseCheckered.                                         *)
(***************************************************************************)
\* the sum of the truncated scaled u and v of the last hit
CheckerSum ==
    ScaledInt(checker.uv.u, checker.mat.m_iBlockSize)
        + ScaledInt(checker.uv.v, checker.mat.m_iBlockSize)

\* C13: for every UV, negative u or v included, and every block size the
\* attenuation is one of the two configured colours, chosen by the parity of
\* the sum of the truncated scaled u and v, and the emission is black.
C13_CheckerIsOneOfTwoColours ==
    checker.pc = "scattered" =>
        /\ checker.scattered.m_color \in {checker.mat.m_colorA, checker.mat.m_colorB}
        /\ checker.scattered.m_color =
              IF CheckerSum % 2 = 1 THEN checker.mat.m_colorA ELSE checker.mat.m_colorB
        /\ checker.scattered.m_emitted = Black

(***************************************************************************)
(* Properties of marchedTrace.                                             *)
(***************************************************************************)
\* the distance of the ray origin from the surface of the sphere
StartGap == Norm(march.ray.m_origin) - march.ray.sdf.r

Cross(a, b) ==
    <<a[2] * b[3] - a[3] * b[2], a[3] * b[1] - a[1] * b[3], a[1] * b[2] - a[2] * b[1]>>

\* the unit normal in thousandths
Thousandths(v) == <<TruncDiv(v[1], 1000), TruncDiv(v[2], 1000), TruncDiv(v[3], 1000)>>

C7_Safety ==
    /\ march.i <= MARCH_N
    /\ (march.pc = "returned" /\ ~march.reached) => ~march.ret
    /\ (march.pc = "returned" /\ march.ret) => march.normal.set

\* C7: marchedTrace returns for every ray and field after at most 1000 loop
\* passes; when no pass saw |distance| <= e it returns false, and it never
\* returns true with the normal unset.
C7_MarchEndsWithinCap == [](C7_Safety) /\ <>(march.pc = "returned")

\* a march that swung across the surface to the cap without a halving
C7_Witness ==
    /\ march.pc = "returned"
    /\ march.i = MARCH_N
    /\ march.ray.sdf.gain = 2
    /\ march.stepScale.halvings = 0
    /\ ~march.ret

(***************************************************************************)
(* Specifications, one per component; the other components stay as         *)
(* constructed.                                                            *)
(***************************************************************************)
CheckerIdle ==
    checker = [pc |-> "constructed",
               mat |-> [m_colorA |-> Black, m_colorB |-> Black, m_iBlockSize |-> 1],
               uv |-> [u |-> 0, v |-> 0], scattered |-> NoScattered]

WindowIdle ==
    window = [m_pSource |-> "nullptr", frame |-> NoFrame, m_bFrameDone |-> FALSE,
              m_iFrameCount |-> 0, ticks |-> 0, created |-> 0, polls |-> 0, writes |-> 0,
              writeTick |-> 0, firstFinishedTick |-> 0, lastOutcome |-> "none"]

TracerIdle == tracer = NewTracer(0) /\ lastTrace = NoTrace

RenderIdle ==
    render = [pc |-> "done", iRaysPerPixel |-> 0, j |-> 0, i |-> 0, k |-> 0,
              stats |-> NewStats, pixelDepth |-> 0, brk |-> FALSE, maturity |-> 0,
              pPixel |-> 0, out |-> NewOutput, mean |-> Black, bytes |-> NoBytes]

MarchIdle ==
    march = [pc |-> "returned",
             ray |-> [sdf |-> [shape |-> "constant", gain |-> 1, r |-> 0],
                      m_direction |-> <<1, 0, 0>>, m_origin |-> <<0, 0, 0>>, centred |-> FALSE],
             i |-> 0, distance |-> 0, stepScale |-> [sign |-> 1, halvings |-> 0],
             intersect |-> <<0, 0, 0>>, bInside |-> FALSE, normal |-> NoNormal,
             ret |-> FALSE, reached |-> FALSE]

SceneNext ==
    \/ AddPrimitiveInstance
    \/ Build
    \/ CastRay
    \/ DropRay
    \/ LinearHit
    \/ BvhHit
    \/ BvhHitUnbuilt

SpecSceneInit == SceneInit /\ TracerIdle /\ RenderIdle /\ MarchIdle /\ CheckerIdle /\ WindowIdle

SpecScene == SpecSceneInit /\ [][SceneNext]_vars

TracerNext ==
    \/ TraceCall
    \/ TraceReturn

SpecTracerInit == SceneInit /\ TracerInit /\ RenderIdle /\ MarchIdle /\ CheckerIdle /\ WindowIdle

SpecTracer == SpecTracerInit /\ [][TracerNext]_vars

RenderNext ==
    \/ RenderSample
    \/ WritePixel

SpecRenderInit == SceneInit /\ TracerInit /\ RenderInit /\ MarchIdle /\ CheckerIdle /\ WindowIdle

SpecRender == SpecRenderInit /\ [][RenderNext]_vars

MarchNext ==
    \/ MarchBegin
    \/ MarchIterate
    \/ MarchLoopEnd

SpecMarchInit == SceneInit /\ TracerIdle /\ RenderIdle /\ MarchInit /\ CheckerIdle /\ WindowIdle

SpecMarch == SpecMarchInit /\ [][MarchNext]_vars

CheckerNext == CheckerScatter

SpecCheckerInit ==
    SceneInit /\ TracerIdle /\ RenderIdle /\ MarchIdle /\ CheckerInit /\ WindowIdle

SpecChecker == SpecCheckerInit /\ [][CheckerNext]_vars

WindowNext ==
    \/ TimerEvent
    \/ PaintEvent
    \/ JobDone

SpecWindowInit ==
    SceneInit /\ TracerIdle /\ RenderIdle /\ MarchIdle /\ CheckerIdle /\ WindowInit

SpecWindow == SpecWindowInit /\ [][WindowNext]_vars

\* marchedTrace is straight-line code: it keeps running until it returns
SpecMarchFair == SpecMarch /\ WF_vars(MarchNext)

====
